---- MODULE Spec2Model ----
(***************************************************************************)
(* Invoice / purchase-order reconciliation of the P2P automation system.   *)
(*                                                                         *)
(* Two engines exist in the repository and both are modelled:              *)
(*   - DynamoDBService.reconcile_invoice_with_po  (API engine, used by the *)
(*     synchronous route PUT /invoices/{id}/reconcile)                     *)
(*   - ReconciliationJobService.reconcile_invoice_with_po (batch engine,   *)
(*     used by the periodic reconciliation job)                            *)
(*                                                                         *)
(* Monetary amounts are held in cents (the store keeps them as decimals).  *)
(* The code converts them to binary64 floats before comparing; the         *)
(* comparison operators below say where that differs from exact decimal    *)
(* arithmetic.                                                             *)
(***************************************************************************)
EXTENDS Integers, Sequences, FiniteSets, TLC

VARIABLES
    eng_invoice,      \* engine harness: the invoice snapshot handed to the engines
    eng_po,           \* engine harness: the purchase-order snapshot
    api_result,       \* engine harness: outcome of the API engine on the snapshots
    job_result,       \* engine harness: outcome of the batch engine on the snapshots
    api_again,        \* engine harness: outcome of a second call of the API engine
    job_again,        \* engine harness: outcome of a second call of the batch engine
    invoices,         \* invoices table: id -> record, or NoItem
    purchase_orders,  \* purchase-orders table: id -> record, or NoItem
    response,         \* last response of the synchronous reconcile route
    api_audit,        \* audit entries emitted by DynamoDBService.create_audit_log
    job,              \* the batch job: position, scanned copies, statistics
    job_audit,        \* entries written to AuditLogTable by the batch job
    calls,            \* API requests served so far, by kind
    job2,             \* a second batch job running over the same tables
    payments,         \* payments table and the approve route: records put, last answer
    vendors,          \* vendors table: the ids that have a record
    creating          \* POST /invoices requests in progress

engine_vars == <<eng_invoice, eng_po, api_result, job_result, api_again, job_again>>
store_vars  == <<invoices, purchase_orders>>
more_vars   == <<job2, payments, vendors, creating>>
orch_vars   == <<invoices, purchase_orders, response, api_audit, job, job_audit, calls,
                 job2, payments, vendors, creating>>
vars        == <<eng_invoice, eng_po, api_result, job_result, api_again, job_again,
                 invoices, purchase_orders, response, api_audit, job, job_audit, calls,
                 job2, payments, vendors, creating>>

-----------------------------------------------------------------------------
(* Values of the record store *)

\* A stored scalar that is expected to be a number: a number (in cents for
\* amounts), a non-numeric string, or an absent key.
Num(c)   == [kind |-> "num", cents |-> c]
NonNumeric == [kind |-> "str", cents |-> 0]
NoKey    == [kind |-> "none", cents |-> 0]

\* dict.get(key, 0)
GetOrZero(v) == IF v.kind = "none" THEN Num(0) ELSE v

\* float(x) raises ValueError on a non-numeric string
FloatRaises(v) == v.kind = "str"
Float(v) == v.cents

Abs(x) == IF x < 0 THEN -x ELSE x

\* (mutant) the status compared as stored, case kept
LowerKeepsCase(s) == s
\* str.lower() on the status strings of the model
Lower(s) ==
    CASE s = "Sent"     -> "sent"
      [] s = "Approved" -> "approved"
      [] OTHER          -> s

\* po_data.get("status", "")
MissingStatus == "<missing>"
GetStatus(po) == IF po.status = MissingStatus THEN "" ELSE po.status


-----------------------------------------------------------------------------
(* binary64 comparisons                                                    *)
(*                                                                         *)
(* The engines compare floats.  For amounts a whole number of cents apart  *)
(* from the threshold, the float comparison agrees with exact arithmetic:  *)
(* the rounding error (about 1e-16 relative) is far below one hundredth of *)
(* a cent.  Exactly on the threshold the rounding of the operands decides. *)
(* The two sets below list, for the amounts of this model, the threshold   *)
(* pairs and what CPython evaluates for them.                              *)

\* <<po_total, invoice_total>> with |po - inv| = po / 100 exactly, for which
\* abs(po_total - invoice_total) <= po_total * 0.01 evaluates to True:
\*   abs(0.0 - 0.0) <= 0.0,  abs(1000.0 - 1010.0) = 10.0 <= 10.0,  3.0 vs 3.03.
\* It evaluates to False for 1.00 vs 1.01 and 1.00 vs 0.99
\*   (abs(1.0 - 1.01) = 0.010000000000000009 > 0.01).
ToleranceThresholdPasses ==
    { <<0, 0>>, <<100000, 101000>>, <<100000, 99000>>, <<300, 303>>, <<300, 297>> }

\* amount_difference <= amount_tolerance with amount_tolerance = po_total * 0.01
AmountWithinTolerance(po_total, invoice_total) ==
    LET difference == Abs(po_total - invoice_total) IN
    IF difference * 100 < po_total THEN TRUE
    ELSE IF difference * 100 > po_total THEN FALSE
    ELSE <<po_total, invoice_total>> \in ToleranceThresholdPasses

\* <<po_price, inv_price>> one cent apart for which
\* abs(float(po_price) - float(inv_price)) > 0.01 evaluates to True:
\*   abs(1.0 - 1.01) = 0.010000000000000009.  (abs(10.0 - 10.01) is below 0.01.)
CentThresholdExceeds == { <<100, 101>>, <<101, 100>> }

\* abs(float(po_price) - float(inv_price)) > 0.01
PriceDiffers(po_price, inv_price) ==
    LET difference == Abs(po_price - inv_price) IN
    IF difference > 1 THEN TRUE
    ELSE IF difference < 1 THEN FALSE
    ELSE <<po_price, inv_price>> \in CentThresholdExceeds

\* f"{amount_tolerance:.2f}" in cents: po_total / 100 rounded to a whole cent
FormatTolerance(po_total) == (po_total + 50) \div 100

-----------------------------------------------------------------------------
(* API engine: DynamoDBService.reconcile_invoice_with_po                   *)

ValidStatuses == {"approved", "sent"}

\* 1. PO status check
ApiPoStatus(po) == Lower(GetStatus(po))
ApiPoStatusValid(po) == ApiPoStatus(po) \in ValidStatuses
ApiStatusDiscrepancies(po) ==
    IF ApiPoStatusValid(po) THEN <<>>
    ELSE << [kind |-> "po_status", po_status |-> ApiPoStatus(po)] >>

\* 2. total amount check
ApiTotalsRaise(invoice, po) ==
    \/ FloatRaises(GetOrZero(po.total_amount))
    \/ FloatRaises(GetOrZero(invoice.total_amount))
ApiPoTotal(po) == Float(GetOrZero(po.total_amount))
ApiInvoiceTotal(invoice) == Float(GetOrZero(invoice.total_amount))
ApiTotalAmountMatch(invoice, po) ==
    AmountWithinTolerance(ApiPoTotal(po), ApiInvoiceTotal(invoice))
ApiAmountDiscrepancies(invoice, po) ==
    IF ApiTotalAmountMatch(invoice, po) THEN <<>>
    ELSE << [kind |-> "total_amount",
             po_total |-> ApiPoTotal(po),
             invoice_total |-> ApiInvoiceTotal(invoice),
             difference |-> Abs(ApiPoTotal(po) - ApiInvoiceTotal(invoice)),
             tolerance |-> FormatTolerance(ApiPoTotal(po))] >>

\* 3. item check: count, then one analysis entry per positional pair
\* (mutant) a strict item check: equal counts and no line mismatch
ApiItemsMatchStrict(invoice, po) ==
    /\ Len(po.items) = Len(invoice.items)
    /\ \A i \in 1..Len(po.items) :
          /\ po.items[i].quantity = invoice.items[i].quantity
          /\ ~PriceDiffers(Float(GetOrZero(po.items[i].unit_price)),
                           Float(GetOrZero(invoice.items[i].unit_price)))
ApiItemsMatch(invoice, po) == Len(po.items) = Len(invoice.items)

ApiItemRaises(po_item, inv_item) ==
    \/ FloatRaises(GetOrZero(po_item.unit_price))
    \/ FloatRaises(GetOrZero(inv_item.unit_price))

ApiItemAnalysis(i, po_item, inv_item) ==
    LET po_qty    == po_item.quantity
        inv_qty   == inv_item.quantity
        po_price  == Float(GetOrZero(po_item.unit_price))
        inv_price == Float(GetOrZero(inv_item.unit_price))
        after_qty == IF po_qty # inv_qty THEN "quantity_mismatch" ELSE "matched"
        final     == IF PriceDiffers(po_price, inv_price)
                     THEN "price_mismatch" ELSE after_qty
    IN [line_number  |-> i,
        po_item      |-> po_item,
        invoice_item |-> inv_item,
        match_status |-> final,
        has_quantity_difference |-> (po_qty # inv_qty),
        has_price_difference    |-> PriceDiffers(po_price, inv_price)]

ApiItemsRaise(invoice, po) ==
    /\ ApiItemsMatch(invoice, po)
    /\ \E i \in 1..Len(po.items) : ApiItemRaises(po.items[i], invoice.items[i])

\* (mutant) the per-line loop run outside the count check, over zip(po, invoice)
ApiDetailedItemAnalysisUnguarded(invoice, po) ==
    LET n == IF Len(po.items) < Len(invoice.items) THEN Len(po.items)
             ELSE Len(invoice.items)
    IN [i \in 1..n |-> [line_number |-> i, po_item |-> po.items[i],
                        invoice_item |-> invoice.items[i], match_status |-> "matched",
                        has_quantity_difference |-> FALSE,
                        has_price_difference |-> FALSE]]
ApiDetailedItemAnalysis(invoice, po) ==
    IF ApiItemsMatch(invoice, po)
    THEN [i \in 1..Len(po.items) |-> ApiItemAnalysis(i, po.items[i], invoice.items[i])]
    ELSE <<>>

ApiCountDiscrepancies(invoice, po) ==
    IF ApiItemsMatch(invoice, po) THEN <<>>
    ELSE << [kind |-> "item_count",
             po_items |-> Len(po.items),
             invoice_items |-> Len(invoice.items)] >>

\* (mutant) the discrepancy list kept between calls instead of built afresh
ApiDiscrepanciesShared(invoice, po) ==
    (IF "details" \in DOMAIN api_result
     THEN api_result.details.discrepancies ELSE <<>>)
        \o ApiStatusDiscrepancies(po) \o ApiAmountDiscrepancies(invoice, po)
        \o ApiCountDiscrepancies(invoice, po)
ApiDiscrepancies(invoice, po) ==
    ApiStatusDiscrepancies(po) \o ApiAmountDiscrepancies(invoice, po)
        \o ApiCountDiscrepancies(invoice, po)

\* (mutant) the verdict taken without the status flag
ApiAllChecksPassedNoStatus(invoice, po) ==
    /\ ApiTotalAmountMatch(invoice, po)
    /\ ApiItemsMatch(invoice, po)
\* 4. verdict
ApiAllChecksPassed(invoice, po) ==
    /\ ApiTotalAmountMatch(invoice, po)
    /\ ApiItemsMatch(invoice, po)
    /\ ApiPoStatusValid(po)

ApiVerdict(invoice, po) ==
    IF ApiAllChecksPassed(invoice, po) THEN "matched" ELSE "rejected"

ApiMessage(invoice, po) ==
    IF ApiAllChecksPassed(invoice, po)
    THEN [text |-> "Invoice successfully matched with purchase order - all validation checks passed",
          count |-> 0]
    ELSE [text |-> "Invoice rejected due to <count> validation discrepancies",
          count |-> Len(ApiDiscrepancies(invoice, po))]

ApiRaises(invoice, po) == ApiTotalsRaise(invoice, po) \/ ApiItemsRaise(invoice, po)

\* (mutant) an engine that turns its exception into a 'rejected' report, as
\* the batch engine does
ApiReconcileLikeBatch(invoice, po) ==
    [raised  |-> FALSE,
     status  |-> IF ApiRaises(invoice, po) THEN "rejected" ELSE ApiVerdict(invoice, po),
     message |-> [text |-> "Invoice rejected due to <count> validation discrepancies",
                  count |-> 1],
     details |-> [discrepancies |-> << [kind |-> "system_error"] >>]]
\* The engine's outcome: the returned report, or the exception it re-raises.
ApiReconcile(invoice, po) ==
    IF ApiRaises(invoice, po)
    THEN [raised |-> TRUE, error |-> "Failed to reconcile invoice"]
    ELSE [raised  |-> FALSE,
          status  |-> ApiVerdict(invoice, po),
          message |-> ApiMessage(invoice, po),
          details |-> [total_amount_match |-> ApiTotalAmountMatch(invoice, po),
                       items_match        |-> ApiItemsMatch(invoice, po),
                       po_status_valid    |-> ApiPoStatusValid(po),
                       detailed_item_analysis |-> ApiDetailedItemAnalysis(invoice, po),
                       discrepancies      |-> ApiDiscrepancies(invoice, po)]]

-----------------------------------------------------------------------------
(* Batch engine: ReconciliationJobService.reconcile_invoice_with_po        *)

JobPoStatus(po) == Lower(GetStatus(po))
JobPoStatusValid(po) == JobPoStatus(po) \in {"approved", "sent"}
JobStatusDiscrepancies(po) ==
    IF JobPoStatusValid(po) THEN <<>>
    ELSE << [kind |-> "po_status", po_status |-> JobPoStatus(po)] >>

JobRaises(invoice, po) ==
    \/ FloatRaises(GetOrZero(po.total_amount))
    \/ FloatRaises(GetOrZero(invoice.total_amount))
JobPoTotal(po) == Float(GetOrZero(po.total_amount))
JobInvoiceTotal(invoice) == Float(GetOrZero(invoice.total_amount))
JobTotalAmountMatch(invoice, po) ==
    AmountWithinTolerance(JobPoTotal(po), JobInvoiceTotal(invoice))
JobAmountDiscrepancies(invoice, po) ==
    IF JobTotalAmountMatch(invoice, po) THEN <<>>
    ELSE << [kind |-> "total_amount",
             po_total |-> JobPoTotal(po),
             invoice_total |-> JobInvoiceTotal(invoice),
             difference |-> Abs(JobPoTotal(po) - JobInvoiceTotal(invoice))] >>

JobItemsMatch(invoice, po) == Len(po.items) = Len(invoice.items)
\* (mutant) the count failure sets no message
JobCountDiscrepanciesSilent(invoice, po) == <<>>
JobCountDiscrepancies(invoice, po) ==
    IF JobItemsMatch(invoice, po) THEN <<>>
    ELSE << [kind |-> "item_count",
             po_items |-> Len(po.items),
             invoice_items |-> Len(invoice.items)] >>

\* (mutant) the messages appended in the order items, status, amount
JobDiscrepanciesItemsFirst(invoice, po) ==
    JobCountDiscrepancies(invoice, po) \o JobStatusDiscrepancies(po)
        \o JobAmountDiscrepancies(invoice, po)
JobDiscrepancies(invoice, po) ==
    JobStatusDiscrepancies(po) \o JobAmountDiscrepancies(invoice, po)
        \o JobCountDiscrepancies(invoice, po)

JobAllChecksPassed(invoice, po) ==
    /\ JobTotalAmountMatch(invoice, po)
    /\ JobItemsMatch(invoice, po)
    /\ JobPoStatusValid(po)

JobVerdict(invoice, po) ==
    IF JobAllChecksPassed(invoice, po) THEN "matched" ELSE "rejected"

JobMessage(invoice, po) ==
    IF JobAllChecksPassed(invoice, po)
    THEN [text |-> "Successfully matched", count |-> 0]
    ELSE [text |-> "Rejected due to <count> discrepancies",
          count |-> Len(JobDiscrepancies(invoice, po))]

\* The batch engine never raises: an exception becomes a 'rejected' report
\* whose details hold a single system-error discrepancy and no flags.
JobReconcile(invoice, po) ==
    IF JobRaises(invoice, po)
    THEN [status  |-> "rejected",
          message |-> [text |-> "Reconciliation error: <error>", count |-> 0],
          details |-> [discrepancies |-> << [kind |-> "system_error"] >>]]
    ELSE [status  |-> JobVerdict(invoice, po),
          message |-> JobMessage(invoice, po),
          details |-> [total_amount_match |-> JobTotalAmountMatch(invoice, po),
                       items_match        |-> JobItemsMatch(invoice, po),
                       po_status_valid    |-> JobPoStatusValid(po),
                       discrepancies      |-> JobDiscrepancies(invoice, po)],
          po_total          |-> JobPoTotal(po),
          invoice_total     |-> JobInvoiceTotal(invoice),
          amount_difference |-> Abs(JobPoTotal(po) - JobInvoiceTotal(invoice))]


-----------------------------------------------------------------------------
(* Engine harness: both engines applied to one pair of snapshots           *)

MaxPoItems == 2
MaxItems   == 3

Item(q, p) == [quantity |-> q, unit_price |-> Num(p)]
BadPriceItem == [quantity |-> 1, unit_price |-> NonNumeric]

SeqsUpTo(S, n) == UNION { [1..k -> S] : k \in 0..n }

EnginePoStatuses    == {"approved", "Sent", "draft", MissingStatus}
EnginePoTotals      == {Num(0), Num(100), Num(100000), NonNumeric}
EngineInvoiceTotals == {Num(0), Num(101), Num(100500), Num(105000), NonNumeric}
EnginePoItems       == {Item(1, 100), Item(2, 1000)}
EngineInvoiceItems  == {Item(1, 100), Item(2, 100), Item(1, 101), Item(2, 1001),
                        BadPriceItem}

EnginePurchaseOrders ==
    [status : EnginePoStatuses, total_amount : EnginePoTotals,
     items : SeqsUpTo(EnginePoItems, MaxPoItems)]
EngineInvoices ==
    [total_amount : EngineInvoiceTotals,
     items : SeqsUpTo(EngineInvoiceItems, MaxItems)]

NoResult == [pending |-> TRUE]

\* The stores and the orchestrators are idle while the engines are exercised.
OrchQuiet ==
    /\ invoices = <<>>
    /\ purchase_orders = <<>>
    /\ response = NoResult
    /\ api_audit = <<>>
    /\ job = NoResult
    /\ job_audit = <<>>
    /\ calls = NoResult
    /\ job2 = NoResult
    /\ payments = <<>>
    /\ vendors = {}
    /\ creating = <<>>

EngineInit ==
    /\ eng_invoice \in EngineInvoices
    /\ eng_po \in EnginePurchaseOrders
    /\ api_result = NoResult
    /\ job_result = NoResult
    /\ api_again = NoResult
    /\ job_again = NoResult
    /\ OrchQuiet

\* the synchronous route's call of the API engine on the snapshots
RunApiEngine ==
    /\ api_result = NoResult
    /\ api_result' = ApiReconcile(eng_invoice, eng_po)
    /\ UNCHANGED <<eng_invoice, eng_po, job_result, api_again, job_again>>
    /\ UNCHANGED orch_vars

\* process_invoice's call of the batch engine on the same snapshots
RunJobEngine ==
    /\ job_result = NoResult
    /\ job_result' = JobReconcile(eng_invoice, eng_po)
    /\ UNCHANGED <<eng_invoice, eng_po, api_result, api_again, job_again>>
    /\ UNCHANGED orch_vars

EngineNext == RunApiEngine \/ RunJobEngine

SpecEngine == EngineInit /\ [][EngineNext]_vars

\* a second call of each engine on the unchanged snapshots
RerunApiEngine ==
    /\ api_result # NoResult
    /\ api_again = NoResult
    /\ api_again' = ApiReconcile(eng_invoice, eng_po)
    /\ UNCHANGED <<eng_invoice, eng_po, api_result, job_result, job_again>>
    /\ UNCHANGED orch_vars

RerunJobEngine ==
    /\ job_result # NoResult
    /\ job_again = NoResult
    /\ job_again' = JobReconcile(eng_invoice, eng_po)
    /\ UNCHANGED <<eng_invoice, eng_po, api_result, job_result, api_again>>
    /\ UNCHANGED orch_vars

TwiceNext == RunApiEngine \/ RerunApiEngine \/ RunJobEngine \/ RerunJobEngine

SpecTwice == EngineInit /\ [][TwiceNext]_vars


-----------------------------------------------------------------------------
(* Properties of the engines (checked under SpecEngine)                    *)

ApiReported == api_result # NoResult /\ ~api_result.raised
JobReported == job_result # NoResult
JobHasFlags == JobReported /\ "items_match" \in DOMAIN job_result.details

NumericTotals ==
    /\ ~FloatRaises(GetOrZero(eng_po.total_amount))
    /\ ~FloatRaises(GetOrZero(eng_invoice.total_amount))
NumericPrices ==
    /\ \A i \in 1..Len(eng_po.items) : ~FloatRaises(GetOrZero(eng_po.items[i].unit_price))
    /\ \A i \in 1..Len(eng_invoice.items) :
           ~FloatRaises(GetOrZero(eng_invoice.items[i].unit_price))
WellFormedSnapshots == NumericTotals /\ NumericPrices

AllFlags(details) ==
    /\ details.po_status_valid
    /\ details.total_amount_match
    /\ details.items_match

Kinds(discrepancies) == [i \in 1..Len(discrepancies) |-> discrepancies[i].kind]
CountOfKind(discrepancies, k) ==
    Cardinality({i \in 1..Len(discrepancies) : discrepancies[i].kind = k})

\* C1: on well-formed snapshots each engine returns a report, and its verdict
\* is 'matched' exactly when po_status_valid, total_amount_match and
\* items_match are all true, and 'rejected' otherwise.
C1_VerdictIffAllFlags ==
    WellFormedSnapshots =>
        /\ api_result # NoResult =>
              /\ ~api_result.raised
              /\ api_result.status \in {"matched", "rejected"}
              /\ api_result.status = "matched" <=> AllFlags(api_result.details)
        /\ job_result # NoResult =>
              /\ JobHasFlags
              /\ job_result.status \in {"matched", "rejected"}
              /\ job_result.status = "matched" <=> AllFlags(job_result.details)

C1_Witness ==
    /\ WellFormedSnapshots
    /\ ApiReported /\ api_result.status = "matched"
    /\ JobReported /\ job_result.status = "matched"
    /\ Len(eng_invoice.items) > 0

\* C2: in every report of either engine a false flag has its discrepancy
\* (status flag -> status message, amount flag -> amount message, items
\* flag -> count message), and a 'rejected' report has a discrepancy.
FlagsExplained(details) ==
    /\ ~details.po_status_valid => CountOfKind(details.discrepancies, "po_status") >= 1
    /\ ~details.total_amount_match => CountOfKind(details.discrepancies, "total_amount") >= 1
    /\ ~details.items_match => CountOfKind(details.discrepancies, "item_count") >= 1

C2_FalseFlagHasDiscrepancy ==
    /\ ApiReported =>
          /\ FlagsExplained(api_result.details)
          /\ api_result.status = "rejected" => Len(api_result.details.discrepancies) > 0
    /\ JobReported =>
          /\ JobHasFlags => FlagsExplained(job_result.details)
          /\ job_result.status = "rejected" => Len(job_result.details.discrepancies) > 0

C2_Witness ==
    /\ ApiReported /\ JobHasFlags
    /\ ~api_result.details.po_status_valid
    /\ ~api_result.details.total_amount_match
    /\ ~api_result.details.items_match
    /\ ~job_result.details.po_status_valid
    /\ ~job_result.details.total_amount_match
    /\ ~job_result.details.items_match
    /\ Len(api_result.details.discrepancies) = 3
    /\ Len(job_result.details.discrepancies) = 3

\* C3: total_amount_match is true exactly when
\* |po_total - invoice_total| <= po_total * 0.01 (amounts in cents:
\* |po - inv| * 100 <= po), in both engines.
ExactWithinTolerance(po_total, invoice_total) ==
    Abs(po_total - invoice_total) * 100 <= po_total

C3_ToleranceIsOnePercent ==
    NumericTotals =>
        LET po_total  == GetOrZero(eng_po.total_amount).cents
            inv_total == GetOrZero(eng_invoice.total_amount).cents
        IN /\ ApiReported =>
                 (api_result.details.total_amount_match
                    <=> ExactWithinTolerance(po_total, inv_total))
           /\ JobHasFlags =>
                 (job_result.details.total_amount_match
                    <=> ExactWithinTolerance(po_total, inv_total))

\* C4: when the two item sequences differ in length the item check fails with
\* exactly one count discrepancy naming both counts and with no per-line
\* diagnostics, whatever the status and amount checks give (and no line is
\* looked at: a malformed line cannot make the engine fail); when the lengths
\* are equal there is no count discrepancy.
CountDiscrepancy ==
    [kind |-> "item_count", po_items |-> Len(eng_po.items),
     invoice_items |-> Len(eng_invoice.items)]

ItemCheckOf(details) ==
    IF Len(eng_po.items) # Len(eng_invoice.items)
    THEN /\ ~details.items_match
         /\ CountOfKind(details.discrepancies, "item_count") = 1
         /\ \E i \in 1..Len(details.discrepancies) : details.discrepancies[i] = CountDiscrepancy
    ELSE CountOfKind(details.discrepancies, "item_count") = 0

C4_CountCheck ==
    NumericTotals =>
        /\ api_result # NoResult =>
              IF Len(eng_po.items) # Len(eng_invoice.items)
              THEN /\ ~api_result.raised
                   /\ ItemCheckOf(api_result.details)
                   /\ api_result.details.detailed_item_analysis = <<>>
              ELSE ApiReported => ItemCheckOf(api_result.details)
        /\ job_result # NoResult => JobHasFlags /\ ItemCheckOf(job_result.details)

C4_Witness ==
    /\ ApiReported /\ JobHasFlags
    /\ Len(eng_po.items) = 2 /\ Len(eng_invoice.items) = 3
    /\ \E i \in 1..3 : eng_invoice.items[i] = BadPriceItem
    /\ api_result.details.po_status_valid /\ api_result.details.total_amount_match
    /\ api_result.status = "rejected"
    /\ Len(api_result.details.discrepancies) = 1
    /\ Len(job_result.details.discrepancies) = 1

\* C5: with equal item counts items_match is true even when a pair differs in
\* quantity or unit price: with an eligible PO status and a total within
\* tolerance the invoice is 'matched', and the per-line mismatches add
\* nothing to the discrepancy list.
LineMismatches(analysis) ==
    {i \in 1..Len(analysis) :
        analysis[i].match_status \in {"quantity_mismatch", "price_mismatch"}}

C5_LineDefectsDoNotGate ==
    (ApiReported /\ Len(eng_po.items) = Len(eng_invoice.items)) =>
        /\ api_result.details.items_match
        /\ \A i \in 1..Len(api_result.details.discrepancies) :
               api_result.details.discrepancies[i].kind \in {"po_status", "total_amount"}
        /\ Len(api_result.details.discrepancies) =
               (IF api_result.details.po_status_valid THEN 0 ELSE 1)
               + (IF api_result.details.total_amount_match THEN 0 ELSE 1)
        /\ (api_result.details.po_status_valid /\ api_result.details.total_amount_match)
               => api_result.status = "matched"

C5_Witness ==
    /\ ApiReported
    /\ api_result.status = "matched"
    /\ api_result.details.discrepancies = <<>>
    /\ \E i, j \in LineMismatches(api_result.details.detailed_item_analysis) :
          /\ api_result.details.detailed_item_analysis[i].match_status = "quantity_mismatch"
          /\ api_result.details.detailed_item_analysis[j].match_status = "price_mismatch"

\* C6: for every invoice and purchase order, malformed data included, the API
\* engine and the batch engine give the same result: same verdict, same three
\* flags, same discrepancies (by kind) in the same order.
C6_EnginesAgree ==
    (api_result # NoResult /\ job_result # NoResult) =>
        /\ ~api_result.raised
        /\ api_result.status = job_result.status
        /\ JobHasFlags
        /\ api_result.details.po_status_valid = job_result.details.po_status_valid
        /\ api_result.details.total_amount_match = job_result.details.total_amount_match
        /\ api_result.details.items_match = job_result.details.items_match
        /\ Kinds(api_result.details.discrepancies) = Kinds(job_result.details.discrepancies)


-----------------------------------------------------------------------------
(* The record store and the orchestrators                                  *)

InvoiceIds == {"inv-1", "inv-2"}
PoIds      == {"po-1", "po-2"}

NoItem == [absent |-> TRUE]

\* Records as the create routes store them: an invoice is created 'received'
\* with a PO reference; a purchase order is created 'pending' or 'approved'.
StoredInvoice(id, po_id, total) ==
    [id |-> id, po_id |-> po_id, total_amount |-> total,
     items |-> << Item(1, 100) >>, status |-> "received"]
StoredPurchaseOrder(id, status) ==
    [id |-> id, status |-> status, total_amount |-> Num(100000),
     items |-> << Item(1, 100) >>]

StoreInvoiceTotals == {Num(100500), Num(105000), NonNumeric}
StorePoStatuses    == {"approved", "pending"}

\* An invoice record written by an update_item on a missing key holds only
\* the key and the attributes of the SET expression.
IsFullInvoice(inv) == inv # NoItem /\ "po_id" \in DOMAIN inv

\* outcomes of one call to the store
IoOutcomes == {"ok", "client_error", "exception"}

\* every order in which a scan may return the items S
ScanOrders(S) ==
    {f \in [1..Cardinality(S) -> S] : \A i, j \in 1..Cardinality(S) : f[i] = f[j] => i = j}

-----------------------------------------------------------------------------
(* Synchronous path: PUT /invoices/{invoice_id}/reconcile                  *)

\* DynamoDBService.create_audit_log: any exception is caught and {} returned;
\* the entry is emitted only when nothing fails.
ApiAuditEntries(entry, audit_outcome) ==
    IF audit_outcome = "ok" THEN << entry >> ELSE <<>>

\* (mutant) an update that sets the status of every stored invoice
ApiUpdateEveryInvoice(table, id, new_status) ==
    [j \in DOMAIN table |->
        IF table[j] = NoItem THEN NoItem ELSE [table[j] EXCEPT !.status = new_status]]

\* DynamoDBService.update_invoice(invoice_id, {'status': new_status})
ApiUpdateInvoice(table, id, new_status) ==
    [table EXCEPT ![id] = [@ EXCEPT !.status = new_status]]

\* (mutant) an error response that also stores the invoice as 'rejected'
SyncErrorRejects(id, code, audit) ==
    [invoices  |-> [invoices EXCEPT ![id] = [id |-> id, status |-> "rejected"]],
     api_audit |-> audit,
     response  |-> [code |-> code, id |-> id]]
\* raise HTTPException(status_code=code): nothing is stored
SyncError(id, code, audit) ==
    [invoices |-> invoices, api_audit |-> audit,
     response |-> [code |-> code, id |-> id]]

\* The route handler.  fault names the store call that raises ClientError, if
\* any; audit_outcome is the outcome of the audit writes of this request.
SyncOutcome(id, fault, audit_outcome) ==
    LET invoice_data == invoices[id]
        unchanged(code, audit) == SyncError(id, code, audit)
    IN
    IF fault = "get_invoice" THEN unchanged(500, <<>>)
    ELSE IF invoice_data = NoItem THEN unchanged(404, <<>>)
    ELSE IF ~IsFullInvoice(invoice_data) THEN unchanged(500, <<>>)
    ELSE IF fault = "get_purchase_order" THEN unchanged(500, <<>>)
    ELSE IF purchase_orders[invoice_data.po_id] = NoItem THEN unchanged(400, <<>>)
    ELSE
    LET po_data == purchase_orders[invoice_data.po_id]
        result  == ApiReconcile(invoice_data, po_data)
    IN
    IF result.raised
    THEN unchanged(500,
             ApiAuditEntries([action |-> "RECONCILE_ERROR", entity_id |-> id],
                             audit_outcome))
    ELSE
    LET reconcile_audit ==
            ApiAuditEntries([action |-> "RECONCILE", entity_id |-> id,
                             reconciliation_status |-> result.status], audit_outcome)
    IN
    IF fault = "update_invoice" THEN unchanged(500, reconcile_audit)
    ELSE [invoices  |-> ApiUpdateInvoice(invoices, id, result.status),
          api_audit |-> reconcile_audit \o
                        ApiAuditEntries([action |-> "UPDATE", entity_id |-> id,
                                         previous_status |-> invoice_data.status,
                                         new_status |-> result.status], audit_outcome),
          response  |-> [code |-> 200, id |-> id,
                         invoice_status |-> result.status,
                         message |-> result.message,
                         reconciliation_details |-> result.details]]

SyncFaults == {"none", "get_invoice", "get_purchase_order", "update_invoice"}

\* Requests explored: MaxSyncCalls reconcile requests when the whole system
\* runs, MaxApiSyncCalls when the API runs alone; MaxPoChanges changes of
\* purchase orders.
MaxSyncCalls    == 1
MaxApiSyncCalls == 2
MaxPoChanges    == 1

SyncReconcileUpTo(max_calls) ==
    \E id \in InvoiceIds, fault \in SyncFaults, audit_outcome \in IoOutcomes :
        LET out == SyncOutcome(id, fault, audit_outcome) IN
        /\ calls.reconcile < max_calls
        /\ calls' = [calls EXCEPT !.reconcile = @ + 1]
        /\ invoices' = out.invoices
        /\ api_audit' = out.api_audit
        /\ response' = out.response
        /\ UNCHANGED <<purchase_orders, job, job_audit>>
        /\ UNCHANGED <<engine_vars, more_vars>>

SyncReconcile == SyncReconcileUpTo(MaxSyncCalls)

ApiSyncReconcile == SyncReconcileUpTo(MaxApiSyncCalls)

-----------------------------------------------------------------------------
(* Purchase-order maintenance through the API                              *)

\* PUT /purchase-orders/{po_id} with a status
UpdatePurchaseOrder ==
    \E id \in PoIds, status \in StorePoStatuses :
        /\ calls.purchase_order < MaxPoChanges
        /\ calls' = [calls EXCEPT !.purchase_order = @ + 1]
        /\ purchase_orders[id] # NoItem
        /\ purchase_orders[id].status # status
        /\ purchase_orders' = [purchase_orders EXCEPT ![id].status = status]
        /\ UNCHANGED <<invoices, response, api_audit, job, job_audit>>
        /\ UNCHANGED <<engine_vars, more_vars>>

\* DELETE /purchase-orders/{po_id}
DeletePurchaseOrder ==
    \E id \in PoIds :
        /\ calls.purchase_order < MaxPoChanges
        /\ calls' = [calls EXCEPT !.purchase_order = @ + 1]
        /\ purchase_orders[id] # NoItem
        /\ purchase_orders' = [purchase_orders EXCEPT ![id] = NoItem]
        /\ UNCHANGED <<invoices, response, api_audit, job, job_audit>>
        /\ UNCHANGED <<engine_vars, more_vars>>


\* DELETE /invoices/{invoice_id}
DeleteInvoice ==
    \E id \in InvoiceIds :
        /\ invoices[id] # NoItem
        /\ invoices' = [invoices EXCEPT ![id] = NoItem]
        /\ UNCHANGED <<purchase_orders, response, api_audit, job, job_audit, calls>>
        /\ UNCHANGED <<engine_vars, more_vars>>

-----------------------------------------------------------------------------
(* Batch path: ReconciliationJobService                                    *)

ZeroStats == [processed |-> 0, matched |-> 0, rejected |-> 0, errors |-> 0, skipped |-> 0]

IdleJob ==
    [pc |-> "idle", dry_run |-> FALSE, received |-> <<>>, idx |-> 0,
     stats |-> ZeroStats, outcomes |-> <<>>]

\* (mutant) an audit write that ignores the dry-run flag
JobAuditWrittenInDryRun(log, entry, dry_run, outcome) ==
    IF outcome = "ok" THEN Append(log, entry) ELSE log

\* ReconciliationJobService.create_audit_log: dry-run writes nothing, a
\* ClientError is caught (returns False), any other exception propagates.
JobAuditWritten(log, entry, dry_run, outcome) ==
    IF ~dry_run /\ outcome = "ok" THEN Append(log, entry) ELSE log
JobAuditRaises(dry_run, outcome) == ~dry_run /\ outcome = "exception"

\* (mutant) an update that rejects an invoice that is no longer 'received'
JobUpdateItemRejectsRepeat(table, id, new_status) ==
    IF table[id] = NoItem
    THEN [table EXCEPT ![id] = [id |-> id, status |-> new_status]]
    ELSE IF table[id].status # "received"
    THEN [table EXCEPT ![id] = [@ EXCEPT !.status = "rejected"]]
    ELSE [table EXCEPT ![id] = [@ EXCEPT !.status = new_status]]

\* ReconciliationJobService.update_invoice_status: an unconditional
\* update_item (SET status, updated_at) on the key.
JobUpdateItem(table, id, new_status) ==
    IF table[id] = NoItem
    THEN [table EXCEPT ![id] = [id |-> id, status |-> new_status]]
    ELSE [table EXCEPT ![id] = [@ EXCEPT !.status = new_status]]

IncErrors(stats) == [stats EXCEPT !.errors = @ + 1]
IncProcessed(stats, new_status) ==
    IF new_status = "matched"
    THEN [stats EXCEPT !.processed = @ + 1, !.matched = @ + 1]
    ELSE [stats EXCEPT !.processed = @ + 1, !.rejected = @ + 1]

\* process_invoice, 'except Exception' handler: count an error, write a
\* RECONCILE_ERROR entry.  An exception of that write leaves process_invoice
\* and the loop of run_reconciliation_job.
JobExceptHandler(table, log, stats, invoice_data, dry_run, updated, handler_audit) ==
    [invoices |-> table,
     audit    |-> JobAuditWritten(log, [action |-> "RECONCILE_ERROR",
                                         entity_id |-> invoice_data.id,
                                         error |-> "exception"],
                                  dry_run, handler_audit),
     stats    |-> IncErrors(stats),
     outcome  |-> [id |-> invoice_data.id, po_found |-> TRUE, updated |-> updated,
                   result |-> "exception"],
     aborted  |-> JobAuditRaises(dry_run, handler_audit)]

\* A variant of the branch 'if not po_data' that rejects the invoice instead
\* of leaving it alone.
JobPoNotFoundRejects(table, log, stats, invoice_data, dry_run, audit_outcome, handler_audit) ==
    [invoices |-> JobUpdateItem(table, invoice_data.id, "rejected"),
     audit    |-> log,
     stats    |-> IncErrors(stats),
     outcome  |-> [id |-> invoice_data.id, po_found |-> FALSE, updated |-> TRUE,
                   result |-> "po_not_found"],
     aborted  |-> FALSE]

\* process_invoice, branch 'if not po_data'
JobPoNotFound(table, log, stats, invoice_data, dry_run, audit_outcome, handler_audit) ==
    IF JobAuditRaises(dry_run, audit_outcome)
    THEN [JobExceptHandler(table, log, IncErrors(stats), invoice_data, dry_run,
                           FALSE, handler_audit)
            EXCEPT !.outcome.po_found = FALSE]
    ELSE [invoices |-> table,
          audit    |-> JobAuditWritten(log, [action |-> "RECONCILE_ERROR",
                                              entity_id |-> invoice_data.id,
                                              error |-> "po_not_found"],
                                       dry_run, audit_outcome),
          stats    |-> IncErrors(stats),
          outcome  |-> [id |-> invoice_data.id, po_found |-> FALSE, updated |-> FALSE,
                        result |-> "po_not_found"],
          aborted  |-> FALSE]

\* process_invoice for one scanned invoice copy.  get_po, update and
\* audit_outcome are the outcomes of its calls to the store; handler_audit is
\* the outcome of the audit write of the exception handler.
ProcessInvoice(table, log, stats, invoice_data, dry_run, get_po, update, audit_outcome, handler_audit) ==
    LET po_id == invoice_data.po_id
        stored_po == purchase_orders[po_id]
    IN
    IF get_po = "exception"
    THEN JobExceptHandler(table, log, stats, invoice_data, dry_run, FALSE, handler_audit)
    ELSE IF get_po = "client_error" \/ stored_po = NoItem
    THEN JobPoNotFound(table, log, stats, invoice_data, dry_run, audit_outcome,
                       handler_audit)
    ELSE
    LET reconciliation_result == JobReconcile(invoice_data, stored_po)
        new_status == reconciliation_result.status
        updated    == ~dry_run /\ update = "ok"
        table2     == IF updated THEN JobUpdateItem(table, invoice_data.id, new_status)
                      ELSE table
    IN
    IF ~dry_run /\ update = "exception"
    THEN JobExceptHandler(table, log, stats, invoice_data, dry_run, FALSE, handler_audit)
    ELSE IF ~dry_run /\ update = "client_error"
    THEN [invoices |-> table, audit |-> log, stats |-> IncErrors(stats),
          outcome  |-> [id |-> invoice_data.id, po_found |-> TRUE, updated |-> FALSE,
                        result |-> "update_failed"],
          aborted  |-> FALSE]
    \* building the BATCH_RECONCILE details reads the three flags of the report
    ELSE IF "po_status_valid" \notin DOMAIN reconciliation_result.details
    THEN JobExceptHandler(table2, log, stats, invoice_data, dry_run, updated,
                          handler_audit)
    ELSE IF JobAuditRaises(dry_run, audit_outcome)
    THEN JobExceptHandler(table2, log, stats, invoice_data, dry_run, updated,
                          handler_audit)
    ELSE [invoices |-> table2,
          audit    |-> JobAuditWritten(log, [action |-> "BATCH_RECONCILE",
                                              entity_id |-> invoice_data.id,
                                              reconciliation_status |-> new_status],
                                       dry_run, audit_outcome),
          stats    |-> IncProcessed(stats, new_status),
          outcome  |-> [id |-> invoice_data.id, po_found |-> TRUE, updated |-> updated,
                        result |-> new_status],
          aborted  |-> FALSE]

\* scan_received_invoices: the items whose status attribute is 'received'
ReceivedInvoices == {invoices[id] : id \in {i \in InvoiceIds :
                        invoices[i] # NoItem /\ invoices[i].status = "received"}}

\* run_reconciliation_job, up to the loop: the scan.  A ClientError of the scan
\* gives an empty list; an empty list ends the run at once.  A service object
\* runs the job once (main and lambda_handler build a new one per run).
JobStart ==
    \E dry_run \in BOOLEAN, scan \in IoOutcomes :
        /\ job.pc = "idle"
        /\ \E received \in (IF scan = "ok" THEN ScanOrders(ReceivedInvoices) ELSE {<<>>}) :
              job' = [pc |-> IF scan = "exception" THEN "failed"
                             ELSE IF received = <<>> THEN "done" ELSE "processing",
                      dry_run |-> dry_run, received |-> received, idx |-> 0,
                      stats |-> ZeroStats, outcomes |-> <<>>]
        /\ UNCHANGED <<invoices, purchase_orders, response, api_audit, job_audit, calls>>
        /\ UNCHANGED <<engine_vars, more_vars>>

\* one iteration of 'for invoice in received_invoices'
JobProcessInvoice ==
    \E get_po \in {"ok", "client_error"}, update, audit_outcome \in IoOutcomes,
       handler_audit \in {"ok", "exception"} :
        /\ job.pc = "processing"
        /\ job.idx < Len(job.received)
        /\ LET out == ProcessInvoice(invoices, job_audit, job.stats,
                                     job.received[job.idx + 1], job.dry_run,
                                     get_po, update, audit_outcome, handler_audit)
           IN /\ invoices' = out.invoices
              /\ job_audit' = out.audit
              /\ job' = [job EXCEPT !.idx = @ + 1,
                                    !.stats = out.stats,
                                    !.outcomes = Append(@, out.outcome),
                                    !.pc = IF out.aborted THEN "failed" ELSE @]
        /\ UNCHANGED <<purchase_orders, response, api_audit, calls>>
        /\ UNCHANGED <<engine_vars, more_vars>>

\* after the loop: the JOB_COMPLETE entry and the result of the run
JobComplete ==
    \E audit_outcome \in IoOutcomes :
        /\ job.pc = "processing"
        /\ job.idx = Len(job.received)
        /\ job_audit' = JobAuditWritten(job_audit,
                                        [action |-> "JOB_COMPLETE", statistics |-> job.stats],
                                        job.dry_run, audit_outcome)
        /\ job' = [job EXCEPT !.pc = IF JobAuditRaises(job.dry_run, audit_outcome)
                                     THEN "failed" ELSE "done"]
        /\ UNCHANGED <<invoices, purchase_orders, response, api_audit, calls>>
        /\ UNCHANGED <<engine_vars, more_vars>>

-----------------------------------------------------------------------------
(* The orchestrated system                                                 *)

\* The store holds purchase orders and invoices as the create routes left
\* them; no reconciliation has run yet.
Init ==
    /\ purchase_orders = [p \in PoIds |-> StoredPurchaseOrder(p, "approved")]
    /\ \E t \in StoreInvoiceTotals :
          invoices = [i \in InvoiceIds |->
                         IF i = "inv-1" THEN StoredInvoice(i, "po-1", t)
                         ELSE StoredInvoice(i, "po-2", Num(100500))]
    /\ response = NoResult
    /\ api_audit = <<>>
    /\ job = IdleJob
    /\ job_audit = <<>>
    /\ calls = [reconcile |-> 0, purchase_order |-> 0]
    /\ job2 = IdleJob
    /\ payments = <<>>
    /\ vendors = {}
    /\ creating = <<>>
    /\ eng_invoice = NoResult /\ eng_po = NoResult
    /\ api_result = NoResult /\ job_result = NoResult
    /\ api_again = NoResult /\ job_again = NoResult

Next ==
    \/ SyncReconcile
    \/ UpdatePurchaseOrder
    \/ DeletePurchaseOrder
    \/ JobStart
    \/ JobProcessInvoice
    \/ JobComplete

Spec == Init /\ [][Next]_vars

\* The API alone: reconcile requests and purchase-order maintenance, no batch
\* run.
NextApi ==
    \/ ApiSyncReconcile
    \/ DeleteInvoice
    \/ UpdatePurchaseOrder
    \/ DeletePurchaseOrder

SpecApi == Init /\ [][NextApi]_vars


-----------------------------------------------------------------------------
(* Properties of the orchestrators                                         *)

HasStatus(table, i, statuses) == table[i] # NoItem /\ table[i].status \in statuses

\* C7: reconciliation acts on 'received' invoices only: an invoice whose
\* status is 'matched' or 'rejected' keeps that status in every step of
\* reconcile requests and purchase-order maintenance, until it is deleted.
C7_TerminalStatusesStay ==
    [][\A i \in InvoiceIds :
          HasStatus(invoices, i, {"matched", "rejected"})
              => \/ HasStatus(invoices', i, {invoices[i].status})
                 \/ invoices'[i] = NoItem]_vars

SyncStep == calls'.reconcile # calls.reconcile
JobStep  == Len(job'.outcomes) = Len(job.outcomes) + 1
LastOutcome(j) == j.outcomes[Len(j.outcomes)]

\* C8: when the purchase order of an invoice cannot be found, the stored
\* invoices are left as they were: a reconcile request for the invoice answers
\* with an error, and the batch step for it counts an error.
C8_PoNotFoundLeavesStatus ==
    [][/\ (/\ SyncStep
            /\ IsFullInvoice(invoices[response'.id])
            /\ purchase_orders[invoices[response'.id].po_id] = NoItem)
           => (invoices' = invoices /\ response'.code \in {400, 500})
       /\ (/\ JobStep
            /\ \/ purchase_orders[job.received[job.idx + 1].po_id] = NoItem
               \/ ~LastOutcome(job').po_found)
           => (invoices' = invoices /\ job'.stats.errors > job.stats.errors)]_vars

\* C8 witness: a reconcile request was answered 400 and a batch step found no
\* purchase order, and both invoices are still 'received'.
C8_Witness ==
    /\ response # NoResult
    /\ response.code = 400
    /\ HasStatus(invoices, response.id, {"received"})
    /\ \E k \in DOMAIN job.outcomes :
          /\ job.outcomes[k].result = "po_not_found"
          /\ purchase_orders[job.received[k].po_id] = NoItem
          /\ HasStatus(invoices, job.outcomes[k].id, {"received"})
          /\ job.stats.errors >= 1

\* C9: a run over all received invoices of which exactly one has a purchase
\* order that does not resolve, with every status update of the others stored,
\* attempts every invoice, ends normally, leaves the others 'matched' or
\* 'rejected' and has counted exactly one error.
C9_BatchFaultIsolation ==
    LET n == Len(job.received)
        unresolved == {k \in DOMAIN job.outcomes : ~job.outcomes[k].po_found}
        others     == DOMAIN job.outcomes \ unresolved
    IN
    (/\ job.pc \in {"done", "failed"}
     /\ ~job.dry_run
     /\ n = Cardinality(InvoiceIds)
     /\ Cardinality(unresolved) = 1
     /\ \A k \in others : job.outcomes[k].updated)
    => /\ job.pc = "done"
       /\ Len(job.outcomes) = n
       /\ job.stats.errors = 1
       /\ \A k \in others :
             HasStatus(invoices, job.outcomes[k].id, {"matched", "rejected"})

\* C10: the outcome of an audit write changes nothing else: the stored
\* invoices and the response of a reconcile request, and the stored invoices,
\* the counters and the continuation of a batch step, are the same for every
\* outcome of the audit writes as they are when the writes succeed.
C10_AuditOutcomeIrrelevant ==
    /\ \A id \in InvoiceIds, fault \in SyncFaults, audit_outcome \in IoOutcomes :
          LET good == SyncOutcome(id, fault, "ok")
              out  == SyncOutcome(id, fault, audit_outcome)
          IN out.invoices = good.invoices /\ out.response = good.response
    /\ (job.pc = "processing" /\ job.idx < Len(job.received))
       => \A get_po \in {"ok", "client_error"}, update, audit_outcome \in IoOutcomes,
             handler_audit \in {"ok", "exception"} :
             LET invoice_data == job.received[job.idx + 1]
                 good == ProcessInvoice(invoices, job_audit, job.stats, invoice_data,
                                        job.dry_run, get_po, update, "ok", "ok")
                 out  == ProcessInvoice(invoices, job_audit, job.stats, invoice_data,
                                        job.dry_run, get_po, update, audit_outcome,
                                        handler_audit)
             IN /\ out.invoices = good.invoices
                /\ out.stats = good.stats
                /\ out.aborted = good.aborted

\* the scanned copy the next batch step works on, and its stored purchase order
NextScanned == job.received[job.idx + 1]
NextScannedPo == purchase_orders[NextScanned.po_id]

\* C11: a batch step for an invoice whose purchase order resolves and whose
\* data makes the engine fail records the invoice as a rejected outcome: the
\* outcome is 'rejected', the rejected counter grows by one, no error is
\* counted and the sweep goes on.
C11_EngineFailureIsRejectedOutcome ==
    [][(/\ JobStep
        /\ NextScannedPo # NoItem
        /\ LastOutcome(job').po_found
        /\ JobRaises(NextScanned, NextScannedPo)
        /\ (job.dry_run \/ LastOutcome(job').updated))
       => (/\ LastOutcome(job').result = "rejected"
           /\ job'.stats.rejected = job.stats.rejected + 1
           /\ job'.stats.errors = job.stats.errors
           /\ job'.pc = "processing")]_vars

-----------------------------------------------------------------------------
(* Properties of the engines, continued                                    *)

EligibleIgnoringCase == {"approved", "Approved", "sent", "Sent"}
StoredStatusText == IF eng_po.status = MissingStatus THEN "" ELSE eng_po.status

StatusCheckOf(details) ==
    LET named == {i \in 1..Len(details.discrepancies) :
                     details.discrepancies[i].kind = "po_status"}
    IN /\ details.po_status_valid <=> eng_po.status \in EligibleIgnoringCase
       /\ details.po_status_valid => named = {}
       /\ ~details.po_status_valid =>
             /\ Cardinality(named) = 1
             /\ \A i \in named : details.discrepancies[i].po_status = StoredStatusText
       /\ (~details.po_status_valid /\ details.total_amount_match /\ details.items_match)
             => Len(details.discrepancies) = 1

\* C13: in every report with flags, po_status_valid is true exactly when the
\* purchase order's status is 'approved' or 'sent' in any letter case;
\* otherwise (a missing status included) the report is 'rejected' and holds
\* exactly one status discrepancy naming the status, the only discrepancy
\* when amounts and item counts agree.
C13_StatusCheck ==
    /\ ApiReported =>
          /\ StatusCheckOf(api_result.details)
          /\ ~api_result.details.po_status_valid => api_result.status = "rejected"
    /\ JobHasFlags =>
          /\ StatusCheckOf(job_result.details)
          /\ ~job_result.details.po_status_valid => job_result.status = "rejected"

\* C13 witness: both engines reported on a purchase order with status 'draft'
\* whose amounts and item counts agree with the invoice, and on no other
\* ground rejected it.
C13_Witness ==
    /\ ApiReported /\ JobHasFlags
    /\ eng_po.status = "draft"
    /\ api_result.details.total_amount_match /\ api_result.details.items_match
    /\ Len(eng_po.items) > 0
    /\ api_result.status = "rejected" /\ job_result.status = "rejected"

\* the label the per-line rule gives a pair in exact arithmetic (prices in
\* cents: 'differ by more than 0.01' is a difference above one cent)
ExactLineLabel(po_item, inv_item) ==
    LET price_gap == Abs(GetOrZero(po_item.unit_price).cents
                         - GetOrZero(inv_item.unit_price).cents)
    IN IF price_gap > 1 THEN "price_mismatch"
       ELSE IF po_item.quantity # inv_item.quantity THEN "quantity_mismatch"
       ELSE "matched"

\* C14: with equal item counts the API engine's per-line analysis has one
\* entry per positional pair, numbered 1..n in order, and each entry is
\* labelled 'price_mismatch' when the unit prices differ by more than 0.01,
\* else 'quantity_mismatch' when the quantities differ, else 'matched'.
C14_LineLabels ==
    (ApiReported /\ Len(eng_po.items) = Len(eng_invoice.items)) =>
        LET analysis == api_result.details.detailed_item_analysis IN
        /\ Len(analysis) = Len(eng_po.items)
        /\ \A i \in 1..Len(analysis) :
              /\ analysis[i].line_number = i
              /\ analysis[i].po_item = eng_po.items[i]
              /\ analysis[i].invoice_item = eng_invoice.items[i]
              /\ analysis[i].match_status
                    = ExactLineLabel(eng_po.items[i], eng_invoice.items[i])

\* the kinds of the failed checks in the order status, amount, items
FailedChecksInOrder(details) ==
    (IF details.po_status_valid THEN <<>> ELSE << "po_status" >>)
        \o (IF details.total_amount_match THEN <<>> ELSE << "total_amount" >>)
        \o (IF details.items_match THEN <<>> ELSE << "item_count" >>)

FalseFlags(details) ==
    Cardinality({f \in {"po_status_valid", "total_amount_match", "items_match"} :
                    ~details[f]})

DiscrepancyListOf(report) ==
    /\ Kinds(report.details.discrepancies) = FailedChecksInOrder(report.details)
    /\ Len(report.details.discrepancies) = FalseFlags(report.details)
    /\ report.status = "rejected" =>
          report.message.count = FalseFlags(report.details)

\* C15: in every report with flags, of either engine, the discrepancy list
\* holds the messages of the failed checks in the order status, amount,
\* items, its length is the number of false flags, and the rejection message
\* reports that number.
C15_DiscrepancyOrder ==
    /\ ApiReported => DiscrepancyListOf(api_result)
    /\ JobHasFlags => DiscrepancyListOf(job_result)

\* C15 witness: both engines rejected a pair that fails all three checks.
C15_Witness ==
    /\ ApiReported /\ JobHasFlags
    /\ FalseFlags(api_result.details) = 3
    /\ FalseFlags(job_result.details) = 3
    /\ api_result.message.count = 3 /\ job_result.message.count = 3

-----------------------------------------------------------------------------
(* Properties of the synchronous path                                      *)

\* C16: a reconcile request for an invoice id that is not stored answers 404
\* (500 when the store fails) and changes nothing: invoices and purchase
\* orders stay as they are and no audit entry is emitted.
C16_UnknownInvoiceNotFound ==
    [][/\ \A id \in InvoiceIds, audit_outcome \in IoOutcomes :
             invoices[id] = NoItem
                 => SyncOutcome(id, "none", audit_outcome).response.code = 404
       /\ (SyncStep /\ invoices[response'.id] = NoItem)
             => /\ response'.code \in {404, 500}
                /\ invoices' = invoices
                /\ purchase_orders' = purchase_orders
                /\ api_audit' = <<>>]_vars

\* C16 witness: a request for a deleted invoice was answered 404.
C16_Witness ==
    /\ response # NoResult
    /\ response.code = 404
    /\ invoices[response.id] = NoItem
    /\ api_audit = <<>>

\* the invoice of a request is stored whole and its purchase order resolves
SyncReaches(id) ==
    /\ IsFullInvoice(invoices[id])
    /\ purchase_orders[invoices[id].po_id] # NoItem
SyncEngineRaises(id) ==
    SyncReaches(id) /\ ApiRaises(invoices[id], purchase_orders[invoices[id].po_id])

\* C17: in the synchronous path a failure of the engine, or of the status
\* update, is answered with an error, and every request answered with an
\* error leaves the stored invoices as they were.
C17_SyncFailureAborts ==
    [][/\ \A id \in InvoiceIds, audit_outcome \in IoOutcomes :
             SyncReaches(id) =>
                 LET out == SyncOutcome(id, "update_invoice", audit_outcome)
                 IN out.response.code = 500 /\ out.invoices = invoices
       /\ (SyncStep /\ SyncEngineRaises(response'.id))
             => (response'.code = 500 /\ invoices' = invoices)
       /\ (SyncStep /\ response'.code # 200) => invoices' = invoices]_vars

\* C17 witness: a request for a received invoice with a non-numeric total was
\* answered 500 and the invoice is still 'received'.
C17_Witness ==
    /\ response # NoResult
    /\ response.code = 500
    /\ SyncEngineRaises(response.id)
    /\ invoices[response.id].status = "received"

\* C18: a reconcile request emits its audit entry after the verdict is
\* stored: every RECONCILE entry of the request records the status the
\* invoice now has, and a request answered 200 emitted exactly one entry.
C18_AuditAfterPersist ==
    [][SyncStep =>
          /\ \A k \in DOMAIN api_audit' :
                api_audit'[k].action = "RECONCILE"
                    => HasStatus(invoices', api_audit'[k].entity_id,
                                 {api_audit'[k].reconciliation_status})
          /\ response'.code = 200 => Len(api_audit') = 1]_vars

-----------------------------------------------------------------------------
(* Properties of the batch path                                            *)

CompletionEntries ==
    {k \in DOMAIN job_audit : job_audit[k].action = "JOB_COMPLETE"}

\* C19: a batch run (not a dry run) that has ended normally has written
\* exactly one JOB_COMPLETE entry, and the entry carries the final statistics;
\* so has a run whose scan returned no invoice.
C19_CompletionEntry ==
    (job.pc = "done" /\ ~job.dry_run)
        => /\ Cardinality(CompletionEntries) = 1
           /\ \A k \in CompletionEntries : job_audit[k].statistics = job.stats

\* C20: a batch step (not a dry run) that ends in a per-item failure counts
\* exactly one error, writes one RECONCILE_ERROR entry for that invoice, and
\* leaves the sweep running.
C20_ItemFailureCountedOnce ==
    [][(/\ JobStep
        /\ ~job.dry_run
        /\ LastOutcome(job').result \notin {"matched", "rejected"})
       => (/\ job'.stats.errors = job.stats.errors + 1
           /\ Len(job_audit') = Len(job_audit) + 1
           /\ job_audit'[Len(job_audit')].action = "RECONCILE_ERROR"
           /\ job_audit'[Len(job_audit')].entity_id = LastOutcome(job').id
           /\ job'.pc = "processing")]_vars

-----------------------------------------------------------------------------
(* Properties of concurrent reconciliations                                *)

\* the stored invoice no longer is the copy the scan returned
ScannedCopyStale == invoices[NextScanned.id] # NextScanned

\* C21: a batch step works on the invoice as it is stored at that moment: when
\* the stored invoice has changed since the scan (reconciled by a request, or
\* deleted), the step does not write a status computed from the scanned copy.
C21_FreshSnapshots ==
    [][(JobStep /\ ScannedCopyStale) => ~LastOutcome(job').updated]_vars

-----------------------------------------------------------------------------
(* Two batch runs over the same tables                                     *)

\* A second ReconciliationJobService (a second Lambda invocation or a second
\* process running main) does what the first does, with its own scanned
\* copies and statistics; both write the same tables.
Job2Start ==
    \E dry_run \in BOOLEAN, scan \in IoOutcomes :
        /\ job2.pc = "idle"
        /\ \E received \in (IF scan = "ok" THEN ScanOrders(ReceivedInvoices) ELSE {<<>>}) :
              job2' = [pc |-> IF scan = "exception" THEN "failed"
                              ELSE IF received = <<>> THEN "done" ELSE "processing",
                       dry_run |-> dry_run, received |-> received, idx |-> 0,
                       stats |-> ZeroStats, outcomes |-> <<>>]
        /\ UNCHANGED <<invoices, purchase_orders, response, api_audit, job, job_audit, calls>>
        /\ UNCHANGED <<payments, vendors, creating>>
        /\ UNCHANGED engine_vars

Job2ProcessInvoice ==
    \E get_po \in {"ok", "client_error"}, update, audit_outcome \in IoOutcomes,
       handler_audit \in {"ok", "exception"} :
        /\ job2.pc = "processing"
        /\ job2.idx < Len(job2.received)
        /\ LET out == ProcessInvoice(invoices, job_audit, job2.stats,
                                     job2.received[job2.idx + 1], job2.dry_run,
                                     get_po, update, audit_outcome, handler_audit)
           IN /\ invoices' = out.invoices
              /\ job_audit' = out.audit
              /\ job2' = [job2 EXCEPT !.idx = @ + 1,
                                      !.stats = out.stats,
                                      !.outcomes = Append(@, out.outcome),
                                      !.pc = IF out.aborted THEN "failed" ELSE @]
        /\ UNCHANGED <<purchase_orders, response, api_audit, job, calls>>
        /\ UNCHANGED <<payments, vendors, creating>>
        /\ UNCHANGED engine_vars

Job2Complete ==
    \E audit_outcome \in IoOutcomes :
        /\ job2.pc = "processing"
        /\ job2.idx = Len(job2.received)
        /\ job_audit' = JobAuditWritten(job_audit,
                                        [action |-> "JOB_COMPLETE", statistics |-> job2.stats],
                                        job2.dry_run, audit_outcome)
        /\ job2' = [job2 EXCEPT !.pc = IF JobAuditRaises(job2.dry_run, audit_outcome)
                                       THEN "failed" ELSE "done"]
        /\ UNCHANGED <<invoices, purchase_orders, response, api_audit, job, calls>>
        /\ UNCHANGED <<payments, vendors, creating>>
        /\ UNCHANGED engine_vars

\* Two batch runs and reconcile requests, the purchase orders left alone.
NextSweeps ==
    \/ JobStart
    \/ JobProcessInvoice
    \/ JobComplete
    \/ Job2Start
    \/ Job2ProcessInvoice
    \/ Job2Complete
    \/ SyncReconcile

\* The store holds one received invoice on an approved purchase order.
InitSweeps ==
    /\ purchase_orders = [p \in PoIds |-> StoredPurchaseOrder(p, "approved")]
    /\ \E t \in StoreInvoiceTotals :
          invoices = [i \in InvoiceIds |->
                         IF i = "inv-1" THEN StoredInvoice(i, "po-1", t) ELSE NoItem]
    /\ response = NoResult
    /\ api_audit = <<>>
    /\ job = IdleJob
    /\ job_audit = <<>>
    /\ calls = [reconcile |-> 0, purchase_order |-> 0]
    /\ job2 = IdleJob
    /\ payments = <<>>
    /\ vendors = {}
    /\ creating = <<>>
    /\ eng_invoice = NoResult /\ eng_po = NoResult
    /\ api_result = NoResult /\ job_result = NoResult
    /\ api_again = NoResult /\ job_again = NoResult

SpecSweeps == InitSweeps /\ [][NextSweeps]_vars

\* the status one batch reconciliation of the stored data of invoice i stores
SingleStatus(i) ==
    JobReconcile([invoices[i] EXCEPT !.status = "received"],
                 purchase_orders[invoices[i].po_id]).status

\* some reconciliation has stored a status for invoice i
StatusWrittenBy(j, i) ==
    \E k \in 1..Len(j.outcomes) : j.outcomes[k].id = i /\ j.outcomes[k].updated
StatusWritten(i) ==
    \/ StatusWrittenBy(job, i)
    \/ StatusWrittenBy(job2, i)
    \/ (response # NoResult /\ response.code = 200 /\ response.id = i)

\* C22: with unchanged invoice and purchase-order data, however two batch runs
\* and a reconcile request over the same received invoice interleave, the
\* invoice is 'received' until one of them stores a status and from then on
\* has the status a single reconciliation stores.
C22_ConcurrentSameAsSingle ==
    \A i \in InvoiceIds :
        invoices[i] # NoItem =>
            /\ invoices[i].status \in {"received", SingleStatus(i)}
            /\ StatusWritten(i) => invoices[i].status = SingleStatus(i)

\* both batch runs and a request have stored a status for inv-1
C22_Witness ==
    /\ StatusWrittenBy(job, "inv-1")
    /\ StatusWrittenBy(job2, "inv-1")
    /\ response # NoResult /\ response.code = 200
    /\ invoices["inv-1"].status = "matched"

-----------------------------------------------------------------------------
(* One batch run next to the invoice routes                                *)

\* A batch run while the API serves reconcile and delete requests for
\* invoices; the purchase orders are left alone.
NextBatch ==
    \/ JobStart
    \/ JobProcessInvoice
    \/ JobComplete
    \/ SyncReconcile
    \/ DeleteInvoice

SpecBatch == Init /\ [][NextBatch]_vars

\* the attempt that acts in this step leaves the records of all invoices but
\* invoice i as they are
OthersUntouched(i) == \A j \in InvoiceIds \ {i} : invoices'[j] = invoices[j]

\* C23: a reconciliation writes to no record of another invoice, and the status
\* it stores is the verdict on the invoice's own data and purchase order,
\* whatever other reconciliations did before or do after.
C23_DistinctInvoicesIndependent ==
    [][/\ SyncStep =>
            /\ OthersUntouched(response'.id)
            /\ response'.code = 200 =>
                   invoices'[response'.id].status =
                       ApiReconcile(invoices[response'.id],
                                    purchase_orders[invoices[response'.id].po_id]).status
       /\ JobStep =>
            /\ OthersUntouched(NextScanned.id)
            /\ LastOutcome(job').updated =>
                   invoices'[NextScanned.id].status =
                       JobReconcile(NextScanned, purchase_orders[NextScanned.po_id]).status
      ]_vars

\* a request has rejected inv-1 and the batch run has matched inv-2
C23_Witness ==
    /\ response # NoResult /\ response.code = 200 /\ response.id = "inv-1"
    /\ invoices["inv-1"] # NoItem /\ invoices["inv-1"].status = "rejected"
    /\ StatusWrittenBy(job, "inv-2")
    /\ invoices["inv-2"] # NoItem /\ invoices["inv-2"].status = "matched"

\* what a record holds besides its status
BusinessData(inv) == IF inv = NoItem THEN NoItem ELSE [inv EXCEPT !.status = "any"]

\* C24: a reconciliation, by request or by the batch run, leaves the purchase
\* orders and everything stored about invoices except the status of the
\* reconciled invoice as it was.
C24_OnlyStatusChanges ==
    [][(SyncStep \/ JobStep) =>
          /\ purchase_orders' = purchase_orders
          /\ \A j \in InvoiceIds : BusinessData(invoices'[j]) = BusinessData(invoices[j])
      ]_vars

\* the invoices a run has counted so far
Counted(stats) == stats.processed + stats.errors

\* C25: a step of a dry-run batch run writes neither an invoice status nor an
\* audit entry, and each iteration of its loop counts its invoice once in the
\* statistics.
C25_DryRunChangesNothing ==
    [][(job' # job /\ job'.dry_run) =>
          /\ invoices' = invoices
          /\ job_audit' = job_audit
          /\ purchase_orders' = purchase_orders
          /\ JobStep => Counted(job'.stats) = Counted(job.stats) + 1
      ]_vars

\* a dry-run run has gone through two invoices, counted one as matched and one
\* as rejected, and completed
C25_Witness ==
    /\ job.dry_run /\ job.pc = "done"
    /\ Len(job.outcomes) = 2
    /\ job.stats.matched = 1 /\ job.stats.rejected = 1
    /\ job_audit = <<>>
    /\ \A i \in InvoiceIds : invoices[i] # NoItem /\ invoices[i].status = "received"

\* C26: throughout a batch run processed = matched + rejected and skipped = 0,
\* and when the run has completed every scanned invoice has been counted
\* exactly once: processed + errors is the number of scanned invoices.
C26_StatisticsAddUp ==
    /\ job.stats.processed = job.stats.matched + job.stats.rejected
    /\ job.stats.skipped = 0
    /\ job.pc = "done" => Counted(job.stats) = Len(job.received)

\* C27: in a batch run that is not a dry run, an iteration that writes the
\* status 'matched' raises matched by one, one that writes 'rejected' raises
\* rejected by one, neither raises errors, and an iteration that writes no
\* status raises neither matched nor rejected: the counters are the numbers of
\* statuses written.
C27_CountersAgreeWithStore ==
    [][(JobStep /\ ~job.dry_run) =>
          LET o == LastOutcome(job')
              written == IF o.updated THEN invoices'[o.id].status ELSE "none"
          IN /\ job'.stats.matched  = job.stats.matched  + (IF written = "matched"  THEN 1 ELSE 0)
             /\ job'.stats.rejected = job.stats.rejected + (IF written = "rejected" THEN 1 ELSE 0)
             /\ o.updated => job'.stats.errors = job.stats.errors
      ]_vars

\* C28: a step of the batch run adds no invoice record: an invoice that is
\* absent before the step, deleted since the scan or never stored, is absent
\* after it.
C28_BatchAddsNoInvoice ==
    [][job' # job =>
          \A i \in InvoiceIds : invoices[i] = NoItem => invoices'[i] = NoItem]_vars

-----------------------------------------------------------------------------
(* POST /invoices: create_invoice                                          *)

Requests       == {"req-1", "req-2"}
InvoiceNumbers == {"INV-001", "INV-002"}

IdleRequest == [pc |-> "idle"]

\* the route answers: raise HTTPException(status_code=code), or success
Answered(request, code) == [request EXCEPT !.pc = "done"] @@ [code |-> code]

\* get_invoice_by_number: a scan for items whose invoice_number is the number
InvoiceByNumber(table, number) ==
    {i \in DOMAIN table : table[i] # NoItem /\ "invoice_number" \in DOMAIN table[i]
                                            /\ table[i].invoice_number = number}

\* DynamoDBService.create_invoice: put_item of the request's data under a new
\* uuid, with the status 'received' the route has set
PutInvoice(table, id, request) ==
    [table EXCEPT ![id] = StoredInvoice(id, request.po_id, Num(100500)) @@
                          [invoice_number |-> request.invoice_number]]

\* the route up to and including its first store call: get_purchase_order
CreateCheckPurchaseOrder ==
    \E r \in Requests, number \in InvoiceNumbers, po_id \in PoIds,
       get_po \in {"ok", "client_error"} :
        /\ creating[r].pc = "idle"
        /\ LET request == [pc |-> "po_checked", invoice_number |-> number, po_id |-> po_id]
           IN creating' = [creating EXCEPT ![r] =
                 IF get_po = "client_error" THEN Answered(request, 500)
                 ELSE IF purchase_orders[po_id] = NoItem THEN Answered(request, 400)
                 ELSE request]
        /\ UNCHANGED <<invoices, purchase_orders, response, api_audit, job, job_audit, calls>>
        /\ UNCHANGED <<job2, payments, vendors>>
        /\ UNCHANGED engine_vars

\* the second store call: get_invoice_by_number
CreateCheckNumber ==
    \E r \in Requests, scan \in {"ok", "client_error"} :
        /\ creating[r].pc = "po_checked"
        /\ creating' = [creating EXCEPT ![r] =
              IF scan = "client_error" THEN Answered(@, 500)
              ELSE IF InvoiceByNumber(invoices, @.invoice_number) # {} THEN Answered(@, 400)
              ELSE [@ EXCEPT !.pc = "number_checked"]]
        /\ UNCHANGED <<invoices, purchase_orders, response, api_audit, job, job_audit, calls>>
        /\ UNCHANGED <<job2, payments, vendors>>
        /\ UNCHANGED engine_vars

\* the third store call: create_invoice
CreatePutInvoice ==
    \E r \in Requests, put \in {"ok", "client_error"} :
        /\ creating[r].pc = "number_checked"
        /\ IF put = "client_error"
           THEN /\ creating' = [creating EXCEPT ![r] = Answered(@, 500)]
                /\ UNCHANGED invoices
           ELSE \E id \in {i \in InvoiceIds : invoices[i] = NoItem} :
                /\ invoices' = PutInvoice(invoices, id, creating[r])
                /\ creating' = [creating EXCEPT ![r] = Answered(@, 200) @@ [id |-> id]]
        /\ UNCHANGED <<purchase_orders, response, api_audit, job, job_audit, calls>>
        /\ UNCHANGED <<job2, payments, vendors>>
        /\ UNCHANGED engine_vars

\* An empty invoices table, two purchase orders, no request yet.
InitCreate ==
    /\ purchase_orders = [p \in PoIds |-> StoredPurchaseOrder(p, "approved")]
    /\ invoices = [i \in InvoiceIds |-> NoItem]
    /\ response = NoResult
    /\ api_audit = <<>>
    /\ job = IdleJob
    /\ job_audit = <<>>
    /\ calls = [reconcile |-> 0, purchase_order |-> 0]
    /\ job2 = IdleJob
    /\ payments = <<>>
    /\ vendors = {}
    /\ creating = [r \in Requests |-> IdleRequest]
    /\ eng_invoice = NoResult /\ eng_po = NoResult
    /\ api_result = NoResult /\ job_result = NoResult
    /\ api_again = NoResult /\ job_again = NoResult

NextCreate ==
    \/ CreateCheckPurchaseOrder
    \/ CreateCheckNumber
    \/ CreatePutInvoice
    \/ DeletePurchaseOrder

SpecCreate == InitCreate /\ [][NextCreate]_vars

\* C29: after any create requests, concurrent ones included, every stored
\* invoice has the status 'received' it was created with and no two stored
\* invoices have the same invoice number.
C29_InvoiceNumbersUnique ==
    /\ \A i \in InvoiceIds : invoices[i] # NoItem => invoices[i].status = "received"
    /\ \A i, j \in InvoiceIds :
          (i # j /\ invoices[i] # NoItem /\ invoices[j] # NoItem)
              => invoices[i].invoice_number # invoices[j].invoice_number

-----------------------------------------------------------------------------
(* POST /payments/{invoice_id}/approve                                     *)

VendorIds == {"ven-1"}
\* a purchase order without a vendor reference: the attribute is missing or
\* empty, either way 'not vendor_id' holds
NoVendor  == ""

MaxApprovals == 2

PurchaseOrderOfVendor(id, status, vendor_id) ==
    StoredPurchaseOrder(id, status) @@ [vendor_id |-> vendor_id]

NoPayments == [table |-> <<>>, answer |-> NoResult, served |-> 0]

\* (mutant) a status check that lets every reconciled invoice pass
ApproveStatusOkReconciled(status) == status \in {"matched", "rejected"}
\* approve_invoice_and_create_payment: if invoice.get('status') != 'matched'
ApproveStatusOk(status) == status = "matched"

\* update_invoice(invoice_id, {'approved_by': ..., 'approved_at': ...})
ApproveUpdateInvoice(table, id) ==
    [table EXCEPT ![id] = [a \in (DOMAIN @) \cup {"approved_by"} |->
                              IF a = "approved_by" THEN "approver" ELSE @[a]]]

\* the route answers an error: nothing more is stored
ApproveError(id, code, table) ==
    [invoices |-> table, payments |-> payments.table, answer |-> [code |-> code, id |-> id]]

\* approve_invoice_and_create_payment as the route calls it.  fault names the
\* store call that raises ClientError, if any.
ApproveOutcome(id, fault) ==
    LET invoice == invoices[id] IN
    IF fault = "get_invoice" THEN ApproveError(id, 500, invoices)
    ELSE IF invoice = NoItem THEN ApproveError(id, 404, invoices)
    ELSE IF ~ApproveStatusOk(invoice.status) THEN ApproveError(id, 400, invoices)
    ELSE IF ~IsFullInvoice(invoice) THEN ApproveError(id, 500, invoices)
    ELSE IF fault = "get_purchase_order" THEN ApproveError(id, 500, invoices)
    ELSE IF purchase_orders[invoice.po_id] = NoItem THEN ApproveError(id, 500, invoices)
    ELSE IF purchase_orders[invoice.po_id].vendor_id = NoVendor
    THEN ApproveError(id, 500, invoices)
    ELSE IF fault = "update_invoice" THEN ApproveError(id, 500, invoices)
    ELSE IF fault = "create_payment"
    THEN ApproveError(id, 500, ApproveUpdateInvoice(invoices, id))
    ELSE [invoices |-> ApproveUpdateInvoice(invoices, id),
          payments |-> Append(payments.table,
                              [invoice_id |-> id,
                               vendor_id |-> purchase_orders[invoice.po_id].vendor_id,
                               amount |-> invoice.total_amount,
                               status |-> "approved"]),
          answer   |-> [code |-> 200, id |-> id]]

ApproveFaults == {"none", "get_invoice", "get_purchase_order", "update_invoice", "create_payment"}

ApprovePayment ==
    \E id \in InvoiceIds, fault \in ApproveFaults :
        LET out == ApproveOutcome(id, fault) IN
        /\ payments.served < MaxApprovals
        /\ invoices' = out.invoices
        /\ payments' = [table |-> out.payments, answer |-> out.answer,
                        served |-> payments.served + 1]
        /\ UNCHANGED <<purchase_orders, response, api_audit, job, job_audit, calls>>
        /\ UNCHANGED <<job2, vendors, creating>>
        /\ UNCHANGED engine_vars

\* DELETE /vendors/{vendor_id}
DeleteVendor ==
    \E v \in vendors :
        /\ vendors' = vendors \ {v}
        /\ UNCHANGED <<invoices, purchase_orders, response, api_audit, job, job_audit, calls>>
        /\ UNCHANGED <<job2, payments, creating>>
        /\ UNCHANGED engine_vars

\* Two received invoices; the purchase order of inv-1 names a vendor that has
\* a record, the purchase order of inv-2 names none.
InitPay ==
    /\ purchase_orders = [p \in PoIds |->
          PurchaseOrderOfVendor(p, "approved", IF p = "po-1" THEN "ven-1" ELSE NoVendor)]
    /\ \E t \in StoreInvoiceTotals :
          invoices = [i \in InvoiceIds |->
                         IF i = "inv-1" THEN StoredInvoice(i, "po-1", t)
                         ELSE StoredInvoice(i, "po-2", Num(100500))]
    /\ vendors = VendorIds
    /\ payments = NoPayments
    /\ response = NoResult
    /\ api_audit = <<>>
    /\ job = IdleJob
    /\ job_audit = <<>>
    /\ calls = [reconcile |-> 0, purchase_order |-> 0]
    /\ job2 = IdleJob
    /\ creating = <<>>
    /\ eng_invoice = NoResult /\ eng_po = NoResult
    /\ api_result = NoResult /\ job_result = NoResult
    /\ api_again = NoResult /\ job_again = NoResult

NextPay ==
    \/ ApiSyncReconcile
    \/ ApprovePayment
    \/ DeleteVendor
    \/ UpdatePurchaseOrder
    \/ DeletePurchaseOrder

SpecPay == InitPay /\ [][NextPay]_vars

ApproveStep == payments'.served # payments.served
PaymentCreated == Len(payments'.table) > Len(payments.table)

\* what the claim says of one approval; the vendor reference of the purchase
\* order either has to name a stored vendor or only has to be there
ApprovalRule(vendor_record_needed) ==
    LET id  == payments'.answer.id
        inv == invoices[id]
    IN /\ PaymentCreated =>
            /\ inv # NoItem /\ inv.status = "matched" /\ IsFullInvoice(inv)
            /\ purchase_orders[inv.po_id] # NoItem
            /\ purchase_orders[inv.po_id].vendor_id # NoVendor
            /\ vendor_record_needed => purchase_orders[inv.po_id].vendor_id \in vendors
       /\ (inv # NoItem /\ inv.status \in {"received", "rejected"}) =>
            /\ payments'.answer.code # 200
            /\ ~PaymentCreated
            /\ invoices' = invoices /\ purchase_orders' = purchase_orders
       /\ payments'.answer.code = 200 =>
            /\ PaymentCreated
            /\ invoices'[id].status = "matched"

=============================================================================
